---- MODULE Spec2Model ----
(***************************************************************************)
(* The three command-line scripts of the repository, upload_paper.py,      *)
(* upload_directory.py and get_paper_extracts.py, as one state machine.    *)
(* A behaviour is one run of one script: main() loads the configuration,   *)
(* authenticates, calls the script's operation and terminates.  Everything *)
(* outside the process (environment, file system, the identity endpoint    *)
(* and the remote API) is a nondeterministic input.                        *)
(***************************************************************************)
EXTENDS Integers, Sequences, FiniteSets, TLC

VARIABLES
    script,      \* which of the three scripts is running
    env,         \* the four required settings as os.getenv returns them
    argc,        \* len(sys.argv)
    pc,          \* position of main()
    exc,         \* the exception propagating to main()'s except clauses
    exitCode,    \* -1 while running, then the process's exit status
    exitAt,      \* the place that terminated the run
    authResp,    \* the identity endpoint's answer to get_jwt_token
    authCalls,   \* requests issued to the identity endpoint
    apiCalls,    \* requests issued to the remote API (upload or extracts)
    jwt_token,   \* the token get_jwt_token returned
    handles,     \* open file handles on PDFs
    closedLog,   \* handles closed so far
    resp,        \* the remote API's answer to the latest request
    result,      \* the value the latest uploader / fetcher call returned
    pdf_files,   \* upload_directory: len(pdf_files)
    i,           \* upload_directory: the loop index
    results,     \* upload_directory: the summary dictionary
    trace,       \* upload_directory: uploader calls and pauses, in order
    outcomes,    \* upload_directory: how each uploader call ended, in order
    returned,    \* the script's operation returned a value to main()
    pdfPath,     \* upload_paper: what was found at the PDF path
    dirState,    \* upload_directory: what was found at the directory path
    fileContent, \* get_paper_extracts: contents of paper_extracts.json
    elements_by_paper, \* get_paper_extracts: the grouping main() builds
    shown        \* get_paper_extracts: the paper summaries printed, in order

vars == <<script, env, argc, pc, exc, exitCode, exitAt, authResp, authCalls,
          apiCalls, jwt_token, handles, closedLog, resp, result, pdf_files,
          i, results, trace, outcomes, returned, pdfPath, dirState,
          fileContent, elements_by_paper, shown>>

(***************************************************************************)
(* Bounds of the model.                                                    *)
(***************************************************************************)
MaxArgc == 2
MaxFiles == 3
MaxPapers == 2
MaxElements == 3

(***************************************************************************)
(* Values.                                                                 *)
(***************************************************************************)
None == "None"

Scripts == {"upload_paper", "upload_directory", "get_paper_extracts"}

Settings == {"SUPABASE_URL", "SUPABASE_ANON_KEY", "OSHIMA_EMAIL", "OSHIMA_PASSWORD"}

\* os.getenv gives None for an unset variable, and the string otherwise,
\* which may be empty.
SettingValues == {None, "", "value"}

Tokens == {"tokA", "tokB"}

\* A transport-level failure of httpx.post (timeout, connection error).
TransportFailure == [status |-> 0, body |-> "transport"]

\* Answers of the identity endpoint: a status and a body that is not JSON
\* ("text"), a JSON object without access_token (None), or one carrying a token.
AuthStatuses == {200, 201, 401, 500}

AuthBodies == {"text", None} \cup Tokens

AuthResponses == [status : AuthStatuses, body : AuthBodies] \cup {TransportFailure}

\* Answers of the upload endpoint.  Bodies: "ok" is a JSON object holding
\* data.paper_id and data.status, "no_data" a non-empty JSON value without
\* them, "empty" an empty JSON object, "text" is not JSON.
UploadStatuses == {200, 201, 202, 404, 500}

UploadBodies == {"ok", "no_data", "empty", "text"}

UploadResponses == [status : UploadStatuses, body : UploadBodies] \cup {TransportFailure}

\* Answers of the extracts endpoint.  Bodies: "extracts" holds data.papers,
\* "no_papers" is a JSON object without papers, "not_dict" is JSON that is
\* no object, "text" is not JSON.
ExtractStatuses == {200, 202, 404}

ExtractBodies == {"extracts", "no_papers", "not_dict", "text"}

\* Identifiers of papers: "A" and "B" are papers the endpoint returns, "X" is
\* an identifier carried by elements only.
ReturnedPaperIds == {"A", "B"}

ElementPaperIds == ReturnedPaperIds \cup {"X"}

ElementTypes == {"claim", "evidence"}

\* data.papers and data.elements of an answer.
PaperLists == UNION {[1..n -> ReturnedPaperIds] : n \in 0..MaxPapers}

ElementLists ==
    UNION {[1..n -> [paper_id : ElementPaperIds, type : ElementTypes]] :
             n \in 0..MaxElements}

\* An "extracts" body carries papers and elements; the other bodies carry none.
ExtractResponses ==
    [status : ExtractStatuses, body : {"extracts"}, papers : PaperLists,
     elements : ElementLists]
    \cup [status : ExtractStatuses, body : ExtractBodies \ {"extracts"},
          papers : {<<>>}, elements : {<<>>}]
    \cup {TransportFailure}

\* response.json(): the parsed body.
Parsed(r) == [body |-> r.body, papers |-> r.papers, elements |-> r.elements]

\* json.dump(value, f, indent=2): the file holds the value as formatted JSON.
json_dump(v) == [format |-> "json", value |-> v]

\* paper_extracts.json as an earlier run left it.
PriorContent ==
    [format |-> "json",
     value |-> [body |-> "old", papers |-> <<>>, elements |-> <<>>]]

\* What Path.exists / open find at a path.
PathStates == {"absent", "file", "unreadable"}

DirStates == {"absent", "file", "dir"}

NoResp == [status |-> 0, body |-> "none"]

(***************************************************************************)
(* Pure functions of the scripts.                                          *)
(***************************************************************************)
\* Python truthiness of a setting.
Truthy(v) == v \notin {None, ""}

\* The validation with `is None` in place of `not`: an empty setting passes.
missing_only_unset(e) == {s \in Settings : e[s] = None}

\* main(): the list of missing settings.
missing(e) == {s \in Settings : ~Truthy(e[s])}

\* httpx.Response.raise_for_status() raises unless the status is 2xx.
RaiseForStatus(status) == status \notin 200..299

\* get_jwt_token: the token returned, or the exception raised.
get_jwt_token(r) ==
    IF r = TransportFailure THEN [raised |-> "TransportError", token |-> None]
    ELSE IF r.status # 200 /\ RaiseForStatus(r.status)
         THEN [raised |-> "HTTPStatusError", token |-> None]
    ELSE IF r.body = "text" THEN [raised |-> "JSONDecodeError", token |-> None]
    ELSE IF r.body = None THEN [raised |-> "ValueError", token |-> None]
    ELSE [raised |-> None, token |-> r.body]

(***************************************************************************)
(* The initial state: main() is entered.                                   *)
(***************************************************************************)
Init ==
    /\ script \in Scripts
    /\ env \in [Settings -> SettingValues]
    /\ argc \in 1..MaxArgc
    /\ pc = "start"
    /\ exc = None
    /\ exitCode = -1
    /\ exitAt = None
    /\ authResp = NoResp
    /\ authCalls = 0
    /\ apiCalls = 0
    /\ jwt_token = None
    /\ handles = 0
    /\ closedLog = 0
    /\ resp = NoResp
    /\ result = None
    /\ pdf_files = 0
    /\ i = 0
    /\ results = [total |-> 0, success |-> 0, failed |-> 0, uploads |-> <<>>]
    /\ trace = <<>>
    /\ outcomes = <<>>
    /\ returned = FALSE
    /\ pdfPath = None
    /\ dirState = None
    /\ fileContent = PriorContent
    /\ elements_by_paper = <<>>
    /\ shown = <<>>

\* sys.exit(code) at the place `at`.
Exit(code, at) ==
    /\ pc' = "done"
    /\ exitCode' = code
    /\ exitAt' = at

\* An exception leaves the try block of main().
Raise(e) ==
    /\ pc' = "except"
    /\ exc' = e
    /\ UNCHANGED <<exitCode, exitAt>>

\* main(): validate required config.
ValidateConfig ==
    /\ pc = "start"
    /\ IF missing(env) # {}
       THEN Exit(1, "preflight")
       ELSE pc' = "args" /\ UNCHANGED <<exitCode, exitAt>>
    /\ UNCHANGED <<script, env, argc, exc, authResp, authCalls, apiCalls,
                   jwt_token, handles, closedLog, resp, result, pdf_files, i,
                   results, trace, outcomes, returned, pdfPath, dirState,
                   fileContent, elements_by_paper, shown>>

\* main(): the positional argument.
CheckArgs ==
    /\ pc = "args"
    /\ IF argc < 2
       THEN Exit(1, "usage")
       ELSE pc' = "auth" /\ UNCHANGED <<exitCode, exitAt>>
    /\ UNCHANGED <<script, env, argc, exc, authResp, authCalls, apiCalls,
                   jwt_token, handles, closedLog, resp, result, pdf_files, i,
                   results, trace, outcomes, returned, pdfPath, dirState,
                   fileContent, elements_by_paper, shown>>

\* The operation main() calls once it holds a token.
Operation(s) ==
    CASE s = "upload_paper" -> "upload"
      [] s = "upload_directory" -> "directory"
      [] s = "get_paper_extracts" -> "extracts"

\* main(), step 1: jwt_token = get_jwt_token(...).
Authenticate ==
    /\ pc = "auth"
    /\ \E r \in AuthResponses :
         LET got == get_jwt_token(r) IN
         /\ authResp' = r
         /\ authCalls' = authCalls + 1
         /\ IF got.raised # None
            THEN Raise(got.raised) /\ UNCHANGED jwt_token
            ELSE /\ jwt_token' = got.token
                 /\ pc' = Operation(script)
                 /\ UNCHANGED <<exc, exitCode, exitAt>>
    /\ UNCHANGED <<script, env, argc, apiCalls, handles, closedLog, resp,
                   result, pdf_files, i, results, trace, outcomes, returned, pdfPath, dirState,
                   fileContent, elements_by_paper, shown>>

\* main(): the except clauses print the error and main() returns.
HandleException ==
    /\ pc = "except"
    /\ Exit(0, "except")
    /\ UNCHANGED <<script, env, argc, exc, authResp, authCalls, apiCalls,
                   jwt_token, handles, closedLog, resp, result, pdf_files, i,
                   results, trace, outcomes, returned, pdfPath, dirState,
                   fileContent, elements_by_paper, shown>>

\* The file closed by hand after the request instead of by a with block: a
\* request that raises leaves the handle open.
WithExit_no_finally(h, r) == IF r = TransportFailure THEN h ELSE h - 1

\* `with open(pdf_file, 'rb') as f:` is left, by falling out of the block, by
\* return or by an exception of the request r: the handle is closed.
WithExit(h, r) == h - 1

(***************************************************************************)
(* upload_paper.py                                                         *)
(***************************************************************************)
\* upload_paper_with_jwt of upload_paper.py from the request on: the value
\* returned, or the exception raised.
upload_paper_with_jwt(r) ==
    IF r = TransportFailure THEN [raised |-> "TransportError", value |-> None]
    ELSE IF r.status \notin {200, 201} /\ RaiseForStatus(r.status)
         THEN [raised |-> "HTTPStatusError", value |-> None]
    ELSE IF r.body = "text" THEN [raised |-> "JSONDecodeError", value |-> None]
    ELSE IF r.body # "ok" THEN [raised |-> "KeyError", value |-> None]
    ELSE [raised |-> None, value |-> r.body]

\* The uploader without its existence check and with the file read lazily by
\* the request: a missing path reaches the request.
PdfCheck_unchecked(path) ==
    IF path = "unreadable" THEN "OSError" ELSE None

\* upload_paper_with_jwt of upload_paper.py before the request: the exception
\* the existence check or open() raises, None when the file is opened.
PdfCheck(path) ==
    IF path = "absent" THEN "FileNotFoundError"
    ELSE IF path = "unreadable" THEN "OSError"
    ELSE None

\* upload_paper_with_jwt: the existence check and open().
UploadPaperOpen ==
    /\ pc = "upload"
    /\ \E path \in PathStates :
         /\ pdfPath' = path
         /\ IF PdfCheck(path) # None
            THEN Raise(PdfCheck(path)) /\ UNCHANGED handles
            ELSE /\ handles' = handles + 1
                 /\ pc' = "upload_post"
                 /\ UNCHANGED <<exc, exitCode, exitAt>>
    /\ UNCHANGED <<script, env, argc, authResp, authCalls, apiCalls, jwt_token,
                   closedLog, resp, result, pdf_files, i, results, trace,
                   outcomes, returned, dirState, fileContent,
                   elements_by_paper, shown>>

\* upload_paper_with_jwt: the request, the status check, leaving the with
\* block, parsing and printing the result.
UploadPaperPost ==
    /\ pc = "upload_post"
    /\ \E r \in UploadResponses :
         LET got == upload_paper_with_jwt(r) IN
         /\ resp' = r
         /\ apiCalls' = apiCalls + 1
         /\ handles' = WithExit(handles, r)
         /\ closedLog' = closedLog + 1
         /\ IF got.raised # None
            THEN Raise(got.raised) /\ UNCHANGED <<result, returned>>
            ELSE /\ result' = got.value
                 /\ returned' = TRUE
                 /\ pc' = "report"
                 /\ UNCHANGED <<exc, exitCode, exitAt>>
    /\ UNCHANGED <<script, env, argc, authResp, authCalls, jwt_token, pdf_files,
                   i, results, trace, outcomes, pdfPath, dirState, fileContent,
                   elements_by_paper, shown>>

\* main(): print the full response; main() returns.
ReportResult ==
    /\ pc = "report"
    /\ Exit(0, "end")
    /\ UNCHANGED <<script, env, argc, exc, authResp, authCalls, apiCalls,
                   jwt_token, handles, closedLog, resp, result, pdf_files, i,
                   results, trace, outcomes, returned, pdfPath, dirState,
                   fileContent, elements_by_paper, shown>>

(***************************************************************************)
(* upload_directory.py                                                     *)
(***************************************************************************)
\* upload_paper_with_jwt of upload_directory.py from the request on: the value
\* returned (every exception is caught and gives None).
batch_upload_paper_with_jwt(r) ==
    IF r = TransportFailure THEN None
    ELSE IF r.status \notin {200, 201} THEN None
    ELSE IF r.body = "text" THEN None
    ELSE r.body

\* How an uploader call that issued a request ended.
PostOutcome(r) ==
    IF r = TransportFailure THEN "transport"
    ELSE IF r.status \notin {200, 201} THEN "status"
    ELSE r.body

\* Python truthiness of the uploader's return value.
ResultTruthy(v) == v \in {"ok", "no_data"}

\* result['data']['paper_id'] and result['data']['status'] can be read.
HasPaperId(v) == v = "ok"

\* The directory checks without is_dir(): a path that is a file is globbed.
DirCheck_exists_only(d) ==
    IF d = "absent" THEN "ValueError" ELSE None

\* upload_directory: the exception the directory checks raise, None when the
\* path is a directory.
DirCheck(d) ==
    IF d = "absent" THEN "ValueError"
    ELSE IF d # "dir" THEN "ValueError"
    ELSE None

\* upload_directory: the directory checks, the enumeration and the summary's
\* initial value.
UploadDirectoryEnter ==
    /\ pc = "directory"
    /\ \E d \in DirStates :
         /\ dirState' = d
         /\ IF DirCheck(d) # None
            THEN Raise(DirCheck(d)) /\ UNCHANGED <<pdf_files, i, results, returned>>
            ELSE \E n \in 0..MaxFiles :
                   /\ pdf_files' = n
                   /\ UNCHANGED <<exc, exitCode, exitAt>>
                   /\ IF n = 0
                      THEN /\ results' = [total |-> 0, success |-> 0,
                                          failed |-> 0, uploads |-> <<>>]
                           /\ returned' = TRUE
                           /\ pc' = "summary"
                           /\ UNCHANGED i
                      ELSE /\ results' = [total |-> n, success |-> 0,
                                          failed |-> 0, uploads |-> <<>>]
                           /\ i' = 1
                           /\ pc' = "loop"
                           /\ UNCHANGED returned
    /\ UNCHANGED <<script, env, argc, authResp, authCalls, apiCalls, jwt_token,
                   handles, closedLog, resp, result, trace, outcomes, pdfPath,
                   fileContent, elements_by_paper, shown>>

\* The loop calls upload_paper_with_jwt for file i: the existence check and
\* open().
BatchUploaderCall ==
    /\ pc = "loop"
    /\ trace' = Append(trace, [ev |-> "call", file |-> i])
    /\ \E path \in PathStates :
         IF path = "file"
         THEN /\ handles' = handles + 1
              /\ pc' = "batch_post"
              /\ UNCHANGED <<result, outcomes>>
         ELSE /\ result' = None
              /\ outcomes' = Append(outcomes, path)
              /\ pc' = "record"
              /\ UNCHANGED handles
    /\ UNCHANGED <<script, env, argc, exc, exitCode, exitAt, authResp, authCalls,
                   apiCalls, jwt_token, closedLog, resp, pdf_files, i, results,
                   returned, pdfPath, dirState, fileContent,
                   elements_by_paper, shown>>

\* upload_paper_with_jwt for file i: the request, the status check, leaving
\* the with block and parsing the result.
BatchPost ==
    /\ pc = "batch_post"
    /\ \E r \in UploadResponses :
         /\ resp' = r
         /\ apiCalls' = apiCalls + 1
         /\ handles' = WithExit(handles, r)
         /\ closedLog' = closedLog + 1
         /\ result' = batch_upload_paper_with_jwt(r)
         /\ outcomes' = Append(outcomes, PostOutcome(r))
         /\ pc' = "record"
    /\ UNCHANGED <<script, env, argc, exc, exitCode, exitAt, authResp, authCalls,
                   jwt_token, pdf_files, i, results, trace, returned,
                   pdfPath, dirState, fileContent,
                   elements_by_paper, shown>>

\* The loop body without the append in its else branch: a failed file is
\* counted but gets no record.
Record_failed_unlisted(res, n, v) ==
    IF ResultTruthy(v)
    THEN [res EXCEPT !.success = @ + 1,
                     !.uploads = Append(@, [filename |-> n, status |-> "success"])]
    ELSE [res EXCEPT !.failed = @ + 1]

\* The summary after the outcome of file n is recorded.
Record(res, n, v) ==
    IF ResultTruthy(v)
    THEN [res EXCEPT !.success = @ + 1,
                     !.uploads = Append(@, [filename |-> n, status |-> "success"])]
    ELSE [res EXCEPT !.failed = @ + 1,
                     !.uploads = Append(@, [filename |-> n, status |-> "failed"])]

\* The loop pauses after file n.
Pauses(n, total) == n < total

\* The rest of the loop body for file i: record the outcome, pause, go on.
BatchRecord ==
    /\ pc = "record"
    /\ IF ResultTruthy(result) /\ ~HasPaperId(result)
       THEN /\ Raise("KeyError")
            /\ UNCHANGED <<results, trace, i, returned>>
       ELSE /\ results' = Record(results, i, result)
            /\ trace' = IF Pauses(i, pdf_files)
                        THEN Append(trace, [ev |-> "sleep", file |-> i])
                        ELSE trace
            /\ i' = i + 1
            /\ pc' = IF i < pdf_files THEN "loop" ELSE "summary"
            /\ returned' = (i >= pdf_files)
            /\ UNCHANGED <<exc, exitCode, exitAt>>
    /\ UNCHANGED <<script, env, argc, authResp, authCalls, apiCalls, jwt_token,
                   handles, closedLog, resp, result, pdf_files, outcomes,
                   pdfPath, dirState, fileContent,
                   elements_by_paper, shown>>

\* The exit status main() gives a returned summary.
SummaryExit(res) == IF res.failed > 0 THEN 1 ELSE 0

\* main(), step 3: print the summary; sys.exit(1) when an upload failed.
PrintSummary ==
    /\ pc = "summary"
    /\ Exit(SummaryExit(results), "summary")
    /\ UNCHANGED <<script, env, argc, exc, authResp, authCalls, apiCalls,
                   jwt_token, handles, closedLog, resp, result, pdf_files, i,
                   results, trace, outcomes, returned, pdfPath, dirState,
                   fileContent, elements_by_paper, shown>>

(***************************************************************************)
(* get_paper_extracts.py                                                   *)
(***************************************************************************)
\* get_paper_extracts: the value returned, or the exception raised.
get_paper_extracts(r) ==
    IF r = TransportFailure THEN [raised |-> "TransportError", value |-> None]
    ELSE IF r.status # 200 /\ RaiseForStatus(r.status)
         THEN [raised |-> "HTTPStatusError", value |-> None]
    ELSE IF r.body = "text" THEN [raised |-> "JSONDecodeError", value |-> None]
    ELSE [raised |-> None, value |-> Parsed(r)]

\* The statements of main() in the order display, save.
StepsAfterFetch_display_first == <<"display", "save">>

\* main(): what follows get_paper_extracts, in statement order.
StepsAfterFetch == <<"save", "display">>

\* The step of main() that follows step s, "end" after the last.
StepAfter(s) ==
    IF s = StepsAfterFetch[1] THEN StepsAfterFetch[2] ELSE "end"

\* main() goes on after step s: to the next step, or it returns.
GoOn(s) ==
    IF StepAfter(s) = "end"
    THEN Exit(0, "end")
    ELSE pc' = StepAfter(s) /\ UNCHANGED <<exitCode, exitAt>>

\* main(), step 2: result = get_paper_extracts(...).
FetchExtracts ==
    /\ pc = "extracts"
    /\ \E r \in ExtractResponses :
         LET got == get_paper_extracts(r) IN
         /\ resp' = r
         /\ apiCalls' = apiCalls + 1
         /\ IF got.raised # None
            THEN Raise(got.raised) /\ UNCHANGED <<result, returned>>
            ELSE /\ result' = got.value
                 /\ returned' = TRUE
                 /\ pc' = StepsAfterFetch[1]
                 /\ UNCHANGED <<exc, exitCode, exitAt>>
    /\ UNCHANGED <<script, env, argc, authResp, authCalls, jwt_token, handles,
                   closedLog, pdf_files, i, results, trace, outcomes,
                   pdfPath, dirState, fileContent, elements_by_paper, shown>>

\* main(): json.dump(result) into paper_extracts.json; open(output_file, 'w')
\* raises when the file cannot be written.
SaveResponse ==
    /\ pc = "save"
    /\ \E writable \in BOOLEAN :
         IF writable
         THEN /\ fileContent' = json_dump(result)
              /\ GoOn("save")
              /\ UNCHANGED exc
         ELSE Raise("OSError") /\ UNCHANGED fileContent
    /\ UNCHANGED <<script, env, argc, authResp, authCalls, apiCalls,
                   jwt_token, handles, closedLog, resp, result, pdf_files, i,
                   results, trace, outcomes, returned, pdfPath, dirState,
                   elements_by_paper, shown>>

\* The grouping with `elements_by_paper[paper_id] = [element]` in place of
\* append: a group keeps only its last element.
RECURSIVE GroupByPaper_overwrite(_, _)
GroupByPaper_overwrite(elements, acc) ==
    IF elements = <<>> THEN acc
    ELSE LET element == Head(elements)
             paper_id == element.paper_id
         IN GroupByPaper_overwrite(Tail(elements),
                [k \in DOMAIN acc \cup {paper_id} |->
                    IF k = paper_id THEN <<element>> ELSE acc[k]])

\* main(): group elements by paper_id, `acc` being elements_by_paper so far.
RECURSIVE GroupByPaper(_, _)
GroupByPaper(elements, acc) ==
    IF elements = <<>> THEN acc
    ELSE LET element == Head(elements)
             paper_id == element.paper_id
             listed == IF paper_id \in DOMAIN acc THEN acc[paper_id] ELSE <<>>
         IN GroupByPaper(Tail(elements),
                [k \in DOMAIN acc \cup {paper_id} |->
                    IF k = paper_id THEN Append(listed, element) ELSE acc[k]])

\* elements_by_paper.get(paper_id, []).
GetElements(groups, paper_id) ==
    IF paper_id \in DOMAIN groups THEN groups[paper_id] ELSE <<>>

\* [e for e in elements_for_paper if e['type'] == t].
OfType(elements_for_paper, t) ==
    LET Is(e) == e.type = t IN SelectSeq(elements_for_paper, Is)

\* print_paper_summary: what is printed for a paper.
print_paper_summary(paper_id, elements_for_paper) ==
    [id |-> paper_id,
     elements |-> elements_for_paper,
     claims |-> OfType(elements_for_paper, "claim"),
     evidence |-> OfType(elements_for_paper, "evidence")]

\* main(), step 3: display the results; result.get fails on JSON that is no
\* object, and nothing is grouped when there are no papers.
DisplayResults ==
    /\ pc = "display"
    /\ IF result.body = "not_dict"
       THEN Raise("AttributeError") /\ UNCHANGED <<elements_by_paper, shown>>
       ELSE /\ GoOn("display")
            /\ UNCHANGED exc
            /\ IF result.papers = <<>>
               THEN UNCHANGED <<elements_by_paper, shown>>
               ELSE LET groups == GroupByPaper(result.elements, <<>>) IN
                    /\ elements_by_paper' = groups
                    /\ shown' = [k \in 1..Len(result.papers) |->
                                   print_paper_summary(result.papers[k],
                                       GetElements(groups, result.papers[k]))]
    /\ UNCHANGED <<script, env, argc, authResp, authCalls, apiCalls, jwt_token,
                   handles, closedLog, resp, result, pdf_files, i, results,
                   trace, outcomes, returned, pdfPath, dirState, fileContent>>

Next ==
    \/ ValidateConfig
    \/ CheckArgs
    \/ Authenticate
    \/ HandleException
    \/ UploadPaperOpen
    \/ UploadPaperPost
    \/ ReportResult
    \/ UploadDirectoryEnter
    \/ BatchUploaderCall
    \/ BatchPost
    \/ BatchRecord
    \/ PrintSummary
    \/ FetchExtracts
    \/ SaveResponse
    \/ DisplayResults

Spec == Init /\ [][Next]_vars

(***************************************************************************)
(* Properties.                                                             *)
(***************************************************************************)
\* Network requests issued by the run so far.
netCalls == authCalls + apiCalls

\* The batch loop was entered: the directory held at least one matching file.
BatchEntered == script = "upload_directory" /\ pdf_files >= 1

\* Outcomes of an uploader call that are a failed upload: the file is missing
\* or cannot be opened, a transport exception, a status other than 200/201,
\* or a response that cannot be used.
FailedOutcomes ==
    {"absent", "unreadable", "transport", "status", "text", "empty", "no_data"}

\* K: the files whose upload failed.
FailedFiles == {k \in 1..Len(outcomes) : outcomes[k] \in FailedOutcomes}

\* C1: a batch over N >= 1 files of which K fail ends with a returned summary
\* total = N, success = N - K, failed = K, and with exit status 1 exactly
\* when K > 0.
C1_SummaryCounts ==
    (pc = "done" /\ BatchEntered) =>
        /\ returned
        /\ results.total = pdf_files
        /\ results.success = pdf_files - Cardinality(FailedFiles)
        /\ results.failed = Cardinality(FailedFiles)
        /\ (exitCode = 1 <=> Cardinality(FailedFiles) > 0)

\* C2: one file's failure never aborts the batch: whatever the outcome of a
\* file's upload, a record for it is appended and the loop goes on, so every
\* uploader call that ended has its record or is about to get it, and a
\* finished batch has attempted and recorded all N files.
C2_NeverAborts ==
    BatchEntered =>
        /\ pc \in {"except", "done"} =>
              /\ Len(outcomes) = pdf_files
              /\ Len(results.uploads) = pdf_files
        /\ Len(results.uploads) < Len(outcomes) => pc = "record"

\* The calls and pauses of a batch over n files: call 1, pause, call 2, ...,
\* pause, call n.
RECURSIVE ExpectedTrace(_)
ExpectedTrace(n) ==
    IF n = 0 THEN <<>>
    ELSE IF n = 1 THEN <<[ev |-> "call", file |-> 1]>>
    ELSE ExpectedTrace(n - 1) \o <<[ev |-> "sleep", file |-> n - 1],
                                   [ev |-> "call", file |-> n]>>

\* C3: a batch over N >= 1 files calls the uploader exactly N times, once per
\* file in enumeration order, and pauses exactly N - 1 times, once after
\* every upload but the last.
C3_CallsAndPauses ==
    (pc = "done" /\ BatchEntered) => trace = ExpectedTrace(pdf_files)

\* A run that did everything it set out to do.
FullySuccessful ==
    /\ exc = None
    /\ exitAt \in {"end", "summary"}
    /\ script = "upload_directory" => results.failed = 0

\* C4: a run with a missing target (PDF path, directory) and a single-file
\* run that ends in an exception terminate with exit status 1; only a fully
\* successful run terminates with exit status 0.
C4_ExitStatus ==
    pc = "done" =>
        /\ (script = "upload_paper" /\ pdfPath = "absent") => exitCode = 1
        /\ (script = "upload_directory" /\ dirState \in {"absent", "file"})
              => exitCode = 1
        /\ (script = "upload_paper" /\ exc # None) => exitCode = 1
        /\ (script # "get_paper_extracts" /\ exitCode = 0) => FullySuccessful

\* Authentication was attempted and failed: a transport failure, a status
\* other than 200, or no token in the body.
AuthFailed ==
    /\ authCalls > 0
    /\ \/ authResp = TransportFailure
       \/ authResp.status # 200
       \/ authResp.body \notin Tokens

\* C5: no request goes to the remote API unless an authentication request
\* was issued before and returned a token, and after a failed authentication
\* the run issues no API request.
C5_TokenBeforeApi ==
    /\ apiCalls > 0 => (authCalls > 0 /\ jwt_token \in Tokens)
    /\ AuthFailed => apiCalls = 0

\* C6: get_jwt_token issues one request and returns a token exactly when the
\* answer is a 200 whose body holds access_token, the token being that
\* field; for every other answer it raises and returns no token.
C6_TokenIff200 ==
    /\ authCalls <= 1
    /\ authCalls = 1 =>
          /\ jwt_token # None <=>
                (authResp # TransportFailure /\ authResp.status = 200
                   /\ authResp.body \in Tokens)
          /\ jwt_token # None => jwt_token = authResp.body
          /\ jwt_token = None => exc # None

\* C7 as stated: when the single-file upload raises file-not-found, no
\* network request has been issued.
C7_NoNetworkCall ==
    (script = "upload_paper" /\ pdfPath = "absent") => netCalls = 0

\* C7 as amended: a missing PDF path makes the single-file upload raise
\* file-not-found with no upload request issued; the run's one network
\* request is the authentication that main() made before.
C7_NoUploadCall ==
    (script = "upload_paper" /\ pdfPath = "absent") =>
        /\ exc = "FileNotFoundError"
        /\ apiCalls = 0
        /\ authCalls = 1

\* C7: the file-not-found condition has just been raised.
C7_Witness ==
    /\ script = "upload_paper"
    /\ pdfPath = "absent"
    /\ pc = "except"
    /\ exc = "FileNotFoundError"

\* C8 as stated: when the directory is missing or no directory, the batch
\* uploader's error is raised with no network request issued by the run,
\* authentication or upload, and none follows.
C8_NoNetworkActivity ==
    (script = "upload_directory" /\ dirState \in {"absent", "file"}) =>
        /\ exc = "ValueError"
        /\ netCalls = 0

\* C8 as amended: when the directory is missing or no directory, the error
\* is raised with no upload request issued, the run's one network request
\* being the authentication that main() made before, and none follows.
C8_NoUploadActivity ==
    (script = "upload_directory" /\ dirState \in {"absent", "file"}) =>
        /\ exc = "ValueError"
        /\ pc \in {"except", "done"}
        /\ apiCalls = 0
        /\ authCalls = 1

\* C8: the error for a path that is no directory has been raised and handled.
C8_Witness ==
    /\ script = "upload_directory"
    /\ dirState = "file"
    /\ exc = "ValueError"
    /\ pc = "done"

\* Some required setting is unset or empty.
SomeSettingMissing == \E s \in Settings : env[s] = None \/ env[s] = ""

\* C9: with a required setting missing or empty the script exits with
\* status 1 in the pre-flight check, before any authentication or network
\* request; with all four present the pre-flight check never ends the run.
C9_Preflight ==
    /\ (SomeSettingMissing /\ pc # "start") =>
          /\ pc = "done"
          /\ exitCode = 1
          /\ exitAt = "preflight"
          /\ netCalls = 0
          /\ jwt_token = None
    /\ ~SomeSettingMissing => exitAt # "preflight"

\* C9: a run ended by the pre-flight check on an empty (not unset) setting.
C9_Witness ==
    /\ pc = "done"
    /\ exitAt = "preflight"
    /\ env["OSHIMA_EMAIL"] = ""
    /\ \A s \in Settings \ {"OSHIMA_EMAIL"} : env[s] = "value"

\* An upload request was answered.
Answered == resp # NoResp /\ resp # TransportFailure

\* The batch uploader has just returned from a call that issued a request.
JustPosted ==
    /\ pc = "record"
    /\ outcomes # <<>>
    /\ outcomes[Len(outcomes)] \notin {"absent", "unreadable"}

\* C10: an upload answer counts as success exactly when its status is 200 or
\* 201 (the body being the documented one); on any other status the single
\* uploader raises and the run reports no result, and the batch uploader
\* returns None, which is recorded as one failed item, the batch going on.
C10_SuccessIff200or201 ==
    /\ (script = "upload_paper" /\ Answered) =>
          /\ resp.status \notin {200, 201} =>
                (exc # None /\ ~returned /\ pc \in {"except", "done"})
          /\ (resp.status \in {200, 201} /\ resp.body = "ok") =>
                (exc = None /\ returned)
    /\ (script = "upload_directory" /\ Answered /\ JustPosted) =>
          /\ resp.status \notin {200, 201} => result = None
          /\ (resp.status \in {200, 201} /\ resp.body = "ok") => result = "ok"
    /\ script = "upload_directory" =>
          \A k \in 1..Len(results.uploads) :
              outcomes[k] = "status" => results.uploads[k].status = "failed"
    /\ (script = "upload_directory" /\ pc = "summary") =>
          results.failed >= Cardinality({k \in 1..Len(outcomes) : outcomes[k] = "status"})

\* C11: in both uploaders the handle opened for the upload is closed on every
\* exit path: it is open only while the request is in flight, never after
\* the uploader returned or raised, every opened handle has been closed by
\* then, and a batch never holds more than one open handle.
C11_HandleClosed ==
    /\ handles \in {0, 1}
    /\ handles = 1 <=> pc \in {"upload_post", "batch_post"}
    /\ (script # "get_paper_extracts" /\ pc \notin {"upload_post", "batch_post"})
          => closedLog = apiCalls
    /\ script = "upload_paper" /\ pc \in {"report", "except", "done"}
          => handles = 0
    /\ script = "upload_directory" /\ pc \in {"record", "loop", "summary", "except", "done"}
          => handles = 0

\* C11: the request of the second file of a batch raised, after the first
\* file's upload was rejected, and no handle is open.
C11_Witness ==
    /\ script = "upload_directory"
    /\ pc = "record"
    /\ Len(outcomes) = 2
    /\ outcomes[1] = "status"
    /\ outcomes[2] = "transport"
    /\ handles = 0
    /\ closedLog = 2

\* The extracts request was answered and the run is past the request.
ExtractsAnswered ==
    /\ script = "get_paper_extracts"
    /\ apiCalls = 1
    /\ resp # TransportFailure

\* C12 as stated: in every run of the fetcher whose request returned 200 the
\* complete response is in paper_extracts.json, in place of the prior
\* contents, before any summarization starts and whatever the response holds,
\* so a failure during summarization leaves the file holding it.
C12_SavedOn200 ==
    (ExtractsAnswered /\ resp.status = 200) =>
        /\ pc # "save" => fileContent = json_dump(Parsed(resp))
        /\ pc = "save" => (elements_by_paper = <<>> /\ shown = <<>>)

\* Writing paper_extracts.json failed.
WriteFailed == exc = "OSError"

\* C12 as amended: the same for every run whose request returned 200 with a
\* body that parses as JSON and whose output file can be written; when it
\* cannot, the file keeps its prior contents and nothing is summarized.
C12_SavedOn200Json ==
    (ExtractsAnswered /\ resp.status = 200 /\ resp.body # "text") =>
        /\ pc \in {"save", "display", "except", "done"}
        /\ (pc # "save" /\ ~WriteFailed) =>
              fileContent = json_dump(Parsed(resp))
        /\ (pc = "save" \/ WriteFailed) =>
              /\ fileContent = PriorContent
              /\ elements_by_paper = <<>>
              /\ shown = <<>>
        /\ pc = "except" => exc \in {"AttributeError", "OSError"}

\* C12: summarization failed and the file holds the full response.
C12_Witness ==
    /\ ExtractsAnswered
    /\ resp.status = 200
    /\ pc = "except"
    /\ exc = "AttributeError"
    /\ fileContent = json_dump(Parsed(resp))
    /\ fileContent # PriorContent

\* The elements of a list whose paper_id is key, in the list's order.
ElementsOf(elements, key) ==
    LET Has(e) == e.paper_id = key IN SelectSeq(elements, Has)

\* The fetcher went through the display of a response that holds papers.
Displayed ==
    /\ script = "get_paper_extracts"
    /\ returned
    /\ pc \in {"except", "done"}
    /\ ~WriteFailed
    /\ result.papers # <<>>

\* C13: the grouping is a partition of the returned elements by paper_id:
\* the groups are keyed by exactly the identifiers the elements carry, each
\* group holds exactly the elements with its key, in their order, so every
\* element is in exactly one group; each returned paper is shown, without
\* any error, with the
\* elements that carry its identifier, none if there are none, and an
\* element of an identifier that is no returned paper is kept under that
\* identifier and shown under no paper.
C13_GroupingPartition ==
    Displayed =>
        /\ exc = None
        /\ DOMAIN elements_by_paper =
              {result.elements[k].paper_id : k \in 1..Len(result.elements)}
        /\ \A key \in DOMAIN elements_by_paper :
              elements_by_paper[key] = ElementsOf(result.elements, key)
        /\ Len(shown) = Len(result.papers)
        /\ \A k \in 1..Len(shown) :
              /\ shown[k].id = result.papers[k]
              /\ shown[k].elements = ElementsOf(result.elements, shown[k].id)
              /\ \A n \in 1..Len(shown[k].elements) :
                    shown[k].elements[n].paper_id = shown[k].id
              /\ shown[k].claims \o shown[k].evidence = <<>>
                    <=> shown[k].elements = <<>>

\* C13: papers A and B are returned with two elements of A, in the order
\* claim, evidence, and one of the foreign X between them, and none of B.
C13_Witness ==
    /\ Displayed
    /\ result.papers = <<"A", "B">>
    /\ result.elements = <<[paper_id |-> "A", type |-> "claim"],
                           [paper_id |-> "X", type |-> "evidence"],
                           [paper_id |-> "A", type |-> "evidence"]>>
    /\ shown[1].elements = <<[paper_id |-> "A", type |-> "claim"],
                             [paper_id |-> "A", type |-> "evidence"]>>
    /\ shown[2].elements = <<>>
    /\ shown[2].claims = <<>>
    /\ shown[2].evidence = <<>>
    /\ elements_by_paper["X"] = <<[paper_id |-> "X", type |-> "evidence"]>>

\* The batch loop is running or has ended, by return or by an exception.
InBatch == BatchEntered /\ pc \in {"loop", "batch_post", "record", "summary",
                                    "except", "done"}

\* C14, at every point of the loop: success + failed is the number of files
\* processed so far and the number of records, it never exceeds total, and
\* total is the number of files enumerated.
C14_CountsInLoop ==
    InBatch =>
        /\ results.success + results.failed = i - 1
        /\ results.success + results.failed = Len(results.uploads)
        /\ results.success + results.failed <= results.total
        /\ results.total = pdf_files

\* C14, across a step of the loop: total stays fixed, success and failed
\* never decrease, a completed iteration increases exactly one of them by
\* exactly one, and nothing else changes them.
C14_CountsStep ==
    (BatchEntered /\ pc \in {"loop", "batch_post", "record"}) =>
        /\ results'.total = results.total
        /\ pdf_files' = pdf_files
        /\ results'.success >= results.success
        /\ results'.failed >= results.failed
        /\ i' = i + 1 =>
              \/ /\ results'.success = results.success + 1
                 /\ results'.failed = results.failed
              \/ /\ results'.success = results.success
                 /\ results'.failed = results.failed + 1
        /\ i' # i + 1 => (i' = i /\ results' = results)

\* C14: the loop invariant holds at every point of the batch loop and every
\* step of the loop keeps the counters as the claim says.
C14_LoopInvariant == [](C14_CountsInLoop) /\ [][C14_CountsStep]_vars

\* C14: the loop is about to start its third iteration after one success
\* and one failure.
C14_Witness ==
    /\ BatchEntered
    /\ pc = "loop"
    /\ i = 3
    /\ pdf_files = 3
    /\ results.success = 1
    /\ results.failed = 1
    /\ Len(results.uploads) = 2
====
